---- MODULE Spec2Model ----
(***************************************************************************)
(* Model of the pull-request review pipeline of src/src/main.ts:           *)
(* main -> getPrDetails -> getDiff -> parseDiff -> filterDiffs ->          *)
(* analyzeCode (createPrompt, getAIResponse, createComment) ->             *)
(* createReviewComment.                                                    *)
(*                                                                         *)
(* Strings that the code inspects character by character (the exclude and  *)
(* include inputs, file paths, glob patterns) are sequences of one-        *)
(* character strings.  Strings that the code only copies (comment texts,   *)
(* titles, line contents) are TLA+ strings.                                *)
(***************************************************************************)
EXTENDS Integers, Sequences, FiniteSets, TLC

(***************************************************************************)
(* Bounds of the model.                                                    *)
(***************************************************************************)
\* Largest number of suggestions the model returns over one run (all units
\* together); a single payload may use the whole budget.
MaxReviews == 2

(***************************************************************************)
(* JavaScript values.  A string is [str |-> <<characters>>], a number is   *)
(* [t |-> "int", v |-> n], [t |-> "frac", v |-> n] (the number n + 1/2) or *)
(* NaN; null and undefined are records of their own.  An object is a       *)
(* record that has exactly the fields the JavaScript object has.           *)
(***************************************************************************)
Undefined == [undefined |-> TRUE]
Null      == [null |-> TRUE]
NaN       == [t |-> "nan"]
Int_(n)   == [t |-> "int", v |-> n]
Frac(n)   == [t |-> "frac", v |-> n]
Str(cs)   == [str |-> cs]

IsStr(x) == "str" \in DOMAIN x

\* obj.field: undefined when the object has no such field.
Get(obj, field) == IF field \in DOMAIN obj THEN obj[field] ELSE Undefined

\* JavaScript truthiness of a value.
Truthy(x) ==
  /\ x # Undefined
  /\ x # Null
  /\ x # NaN
  /\ x # Int_(0)
  /\ x # Str(<<>>)
  /\ x # [bool |-> FALSE]

(***************************************************************************)
(* String helpers: String.prototype.split(","), String.prototype.trim().   *)
(***************************************************************************)
RECURSIVE Split(_, _)
Split(s, sep) ==
  IF s = <<>> THEN << <<>> >>
  ELSE LET rest == Split(Tail(s), sep) IN
       IF Head(s) = sep THEN << <<>> >> \o rest
       ELSE << <<Head(s)>> \o Head(rest) >> \o Tail(rest)

RECURSIVE TrimStart(_)
TrimStart(s) ==
  IF s # <<>> /\ Head(s) = " " THEN TrimStart(Tail(s)) ELSE s

RECURSIVE TrimEnd(_)
TrimEnd(s) ==
  IF s # <<>> /\ s[Len(s)] = " " THEN TrimEnd(SubSeq(s, 1, Len(s) - 1)) ELSE s

Trim(s) == TrimEnd(TrimStart(s))

(***************************************************************************)
(* minimatch(path, pattern) with default options, for patterns made of     *)
(* literal characters, "*", "**", "/" and a leading "!" or "#", and for    *)
(* paths and patterns without two slashes in a row.                        *)
(***************************************************************************)
\* "*" inside one path segment: any run of characters, possibly empty.
RECURSIVE Wild(_, _)
Wild(seg, pat) ==
  IF pat = <<>> THEN seg = <<>>
  ELSE IF Head(pat) = "*"
       THEN Wild(seg, Tail(pat)) \/ (seg # <<>> /\ Wild(Tail(seg), pat))
       ELSE seg # <<>> /\ Head(seg) = Head(pat) /\ Wild(Tail(seg), Tail(pat))

\* One pattern segment against one path segment: a segment without magic is
\* compared as a string; a segment with "*" must match a non-empty name and,
\* when it starts with "*", a name that does not start with ".".
SegMatch(seg, pat) ==
  IF \A i \in 1..Len(pat) : pat[i] # "*" THEN seg = pat
  ELSE /\ seg # <<>>
       /\ (Head(pat) = "*" => Head(seg) # ".")
       /\ Wild(seg, pat)

GLOBSTAR == <<"*", "*">>

DotSegment(seg) == seg # <<>> /\ Head(seg) = "."

\* Minimatch.matchOne(file, pattern, partial = false).
RECURSIVE MatchOne(_, _)
MatchOne(file, pat) ==
  IF file = <<>> \/ pat = <<>>
  THEN IF file = <<>> /\ pat = <<>> THEN TRUE
       ELSE IF file = <<>> THEN FALSE
       ELSE Len(file) = 1 /\ file[1] = <<>>
  ELSE IF Head(pat) = GLOBSTAR
       THEN IF Len(pat) = 1
            THEN \A i \in 1..Len(file) : ~DotSegment(file[i])
            ELSE \E fr \in 1..Len(file) :
                    /\ \A k \in 1..(fr - 1) : ~DotSegment(file[k])
                    /\ MatchOne(SubSeq(file, fr, Len(file)), Tail(pat))
       ELSE SegMatch(Head(file), Head(pat)) /\ MatchOne(Tail(file), Tail(pat))

\* parseNegate: the leading "!" characters are stripped, an odd number negates.
RECURSIVE StripBangs(_)
StripBangs(pattern) ==
  IF pattern # <<>> /\ Head(pattern) = "!" THEN StripBangs(Tail(pattern))
  ELSE pattern

minimatch(p, pattern) ==
  IF pattern # <<>> /\ Head(pattern) = "#" THEN FALSE
  ELSE IF Trim(pattern) = <<>> THEN p = <<>>
  ELSE LET rest   == StripBangs(pattern)
           negate == (Len(pattern) - Len(rest)) % 2 = 1
           hit    == MatchOne(Split(p, "/"), Split(rest, "/"))
       IN  IF negate THEN ~hit ELSE hit

(***************************************************************************)
(* Number(value): the coercion analyzeCode and createComment apply to the  *)
(* model's lineNumber field.  Decimal strings only (no exponent, no hex).  *)
(***************************************************************************)
DigitOf ==
  ("0" :> 0) @@ ("1" :> 1) @@ ("2" :> 2) @@ ("3" :> 3) @@ ("4" :> 4) @@
  ("5" :> 5) @@ ("6" :> 6) @@ ("7" :> 7) @@ ("8" :> 8) @@ ("9" :> 9)

AllDigits(s) == \A i \in 1..Len(s) : s[i] \in DOMAIN DigitOf

RECURSIVE DigitsValue(_)
DigitsValue(s) ==
  IF s = <<>> THEN 0
  ELSE DigitsValue(SubSeq(s, 1, Len(s) - 1)) * 10 + DigitOf[s[Len(s)]]

\* An unsigned decimal literal: digits, digits.digits, .digits or digits.
UnsignedToNumber(s) ==
  LET parts == Split(s, ".") IN
  IF Len(parts) = 1
  THEN IF s # <<>> /\ AllDigits(s) THEN Int_(DigitsValue(s)) ELSE NaN
  ELSE IF /\ Len(parts) = 2
          /\ AllDigits(parts[1]) /\ AllDigits(parts[2])
          /\ Len(parts[1]) + Len(parts[2]) > 0
       THEN IF DigitsValue(parts[2]) = 0
            THEN Int_(DigitsValue(parts[1]))
            ELSE Frac(DigitsValue(parts[1]))
       ELSE NaN

Negate(n) ==
  IF n = NaN THEN NaN
  ELSE IF n.t = "int" THEN Int_(0 - n.v)
  ELSE Frac(0 - n.v - 1)

StringToNumber(cs) ==
  LET t == Trim(cs) IN
  IF t = <<>> THEN Int_(0)
  ELSE IF Head(t) = "-" THEN Negate(UnsignedToNumber(Tail(t)))
  ELSE IF Head(t) = "+" THEN UnsignedToNumber(Tail(t))
  ELSE UnsignedToNumber(t)

Number(x) ==
  IF "t" \in DOMAIN x THEN x
  ELSE IF IsStr(x) THEN StringToNumber(x.str)
  ELSE IF x = Null THEN Int_(0)
  ELSE NaN

\* n > 0 for a JavaScript number n.
Positive(n) ==
  /\ n # NaN
  /\ IF n.t = "int" THEN n.v > 0 ELSE n.v >= 0

\* Has that looks at the integer part only: 10.5 is found in a set with 10.
HasIntegerPart(set, n) == n # NaN /\ n.v \in set

\* Set<number>.prototype.has(n) for a set of integers.
Has(set, n) == n # NaN /\ n.t = "int" /\ n.v \in set

(***************************************************************************)
(* parseDiff.  The diff text is abstracted to the sequence of its files,   *)
(* each with the path of its "+++" line (absent when the text has none)    *)
(* and its hunks: the two start lines of the "@@" header and the signed    *)
(* lines.  parseDiff numbers the lines as parse-diff does: an added line   *)
(* gets ln (new numbering), a deleted line gets ln (old numbering), a      *)
(* context line gets ln1 (old) and ln2 (new).                              *)
(***************************************************************************)
RECURSIVE ParseChanges(_, _, _)
ParseChanges(lines, lnDel, lnAdd) ==
  IF lines = <<>> THEN <<>>
  ELSE LET l == Head(lines) IN
       IF l.sign = "+"
       THEN << [type |-> "add", add |-> TRUE, ln |-> lnAdd, content |-> l] >>
            \o ParseChanges(Tail(lines), lnDel, lnAdd + 1)
       ELSE IF l.sign = "-"
       THEN << [type |-> "del", del |-> TRUE, ln |-> lnDel, content |-> l] >>
            \o ParseChanges(Tail(lines), lnDel + 1, lnAdd)
       ELSE << [type |-> "normal", normal |-> TRUE, ln1 |-> lnDel,
                ln2 |-> lnAdd, content |-> l] >>
            \o ParseChanges(Tail(lines), lnDel + 1, lnAdd + 1)

ParseChunk(h) ==
  [content  |-> [oldStart |-> h.oldStart, newStart |-> h.newStart],
   oldStart |-> h.oldStart,
   newStart |-> h.newStart,
   changes  |-> ParseChanges(h.lines, h.oldStart, h.newStart)]

ParseFile(f) ==
  IF "to" \in DOMAIN f
  THEN [to |-> f.to,
        chunks |-> [i \in 1..Len(f.hunks) |-> ParseChunk(f.hunks[i])]]
  ELSE [chunks |-> [i \in 1..Len(f.hunks) |-> ParseChunk(f.hunks[i])]]

parseDiff(diff) == [i \in 1..Len(diff.files) |-> ParseFile(diff.files[i])]

(***************************************************************************)
(* filterDiffs(parsedDiff), reading the "exclude" and "include" inputs.    *)
(***************************************************************************)
\* Patterns without the filter of lines 419 and 425: blank entries stay.
PatternsKeepBlank(input) ==
  LET entries == Split(input, ",")
  IN  [i \in 1..Len(entries) |-> Trim(entries[i])]

\* getInput(name).split(",").map(trim).filter(length > 0)
Patterns(input) ==
  LET entries == Split(input, ",")
      trimmed == [i \in 1..Len(entries) |-> Trim(entries[i])]
  IN  SelectSeq(trimmed, LAMBDA e : Len(e) > 0)

\* file.to ?? ""
ToOrEmpty(file) == IF "to" \in DOMAIN file THEN file.to.str ELSE <<>>

Excluded(file, excludePatterns) ==
  /\ Len(excludePatterns) > 0
  /\ \E i \in 1..Len(excludePatterns) :
        minimatch(ToOrEmpty(file), excludePatterns[i])

\* Included without the default allow of an empty include list.
IncludedNoDefault(file, includePatterns) ==
  \E i \in 1..Len(includePatterns) :
    minimatch(ToOrEmpty(file), includePatterns[i])

Included(file, includePatterns) ==
  \/ Len(includePatterns) = 0
  \/ \E i \in 1..Len(includePatterns) :
        minimatch(ToOrEmpty(file), includePatterns[i])

\* filterDiffs with the precedence reversed: a matching include pattern
\* keeps an excluded file.
filterDiffsIncludeWins(parsedDiff, excludeInput, includeInput) ==
  LET excludePatterns == Patterns(excludeInput)
      includePatterns == Patterns(includeInput)
  IN  SelectSeq(parsedDiff,
                LAMBDA file :
                  \/ /\ Len(includePatterns) > 0
                     /\ Included(file, includePatterns)
                  \/ /\ ~Excluded(file, excludePatterns)
                     /\ Included(file, includePatterns))

filterDiffs(parsedDiff, excludeInput, includeInput) ==
  LET excludePatterns == Patterns(excludeInput)
      includePatterns == Patterns(includeInput)
  IN  SelectSeq(parsedDiff,
                LAMBDA file : /\ ~Excluded(file, excludePatterns)
                              /\ Included(file, includePatterns))

(***************************************************************************)
(* analyzeCode: the valid line numbers of one chunk (lines 218-229).       *)
(***************************************************************************)
\* ChangeLineNumbers without the loop of lines 224-228: the numbers between
\* ln1 and ln2 are not added.
ChangeLineNumbersNoRange(change) ==
  (IF "ln" \in DOMAIN change /\ change.ln # 0 THEN {change.ln} ELSE {})
  \cup
  (IF "ln2" \in DOMAIN change /\ change.ln2 # 0 THEN {change.ln2} ELSE {})

\* What one change adds to validLineNumbers.
ChangeLineNumbers(change) ==
  (IF "ln" \in DOMAIN change /\ change.ln # 0 THEN {change.ln} ELSE {})
  \cup
  (IF "ln2" \in DOMAIN change /\ change.ln2 # 0 THEN {change.ln2} ELSE {})
  \cup
  (IF /\ "ln1" \in DOMAIN change /\ "ln2" \in DOMAIN change
      /\ change.ln1 # 0 /\ change.ln2 # 0
   THEN change.ln1 .. change.ln2 ELSE {})

ValidLineNumbers(chunk) ==
  UNION {ChangeLineNumbers(chunk.changes[i]) : i \in 1..Len(chunk.changes)}

(***************************************************************************)
(* createPrompt(file, chunk, prDetails): the parts of the template that    *)
(* depend on the arguments.                                                *)
(***************************************************************************)
createPrompt(file, chunk, prDetails) ==
  [file        |-> Get(file, "to"),
   title       |-> prDetails.title,
   description |-> prDetails.description,
   content     |-> chunk.content,
   changes     |-> [i \in 1..Len(chunk.changes) |->
                     LET c == chunk.changes[i] IN
                     [number  |-> IF "ln" \in DOMAIN c /\ c.ln # 0
                                  THEN c.ln ELSE Get(c, "ln2"),
                      content |-> c.content]]]

(***************************************************************************)
(* createComment(file, chunk, aiResponses).                                *)
(***************************************************************************)
\* createComment without the test of line 356: a file without a target
\* path gets comments too.
RECURSIVE createCommentNoPathGuard(_, _, _)
createCommentNoPathGuard(file, chunk, aiResponses) ==
  IF aiResponses = <<>> THEN <<>>
  ELSE << [body |-> Get(Head(aiResponses), "reviewComment"),
           path |-> Get(file, "to"),
           line |-> Number(Get(Head(aiResponses), "lineNumber"))] >>
       \o createCommentNoPathGuard(file, chunk, Tail(aiResponses))

RECURSIVE createComment(_, _, _)
createComment(file, chunk, aiResponses) ==
  IF aiResponses = <<>> THEN <<>>
  ELSE (IF ~Truthy(Get(file, "to")) THEN <<>>
        ELSE << [body |-> Get(Head(aiResponses), "reviewComment"),
                 path |-> file.to,
                 line |-> Number(Get(Head(aiResponses), "lineNumber"))] >>)
       \o createComment(file, chunk, Tail(aiResponses))

(***************************************************************************)
(* getAIResponse(prompt), given what the model client does with the call.  *)
(* A reply is [error |-> TRUE] (the call rejects) or [content |-> c] with  *)
(* c the message content: null, a string of blanks, a text that is not     *)
(* JSON ([unparseable |-> TRUE]) or the JSON text of a value ([json |-> v]).*)
(* The result is the returned value and whether the catch block ran.       *)
(***************************************************************************)
EmptyObject == [f \in {} |-> 0]

IsObject(v) ==
  /\ v # Null /\ v # Undefined
  /\ ~IsStr(v) /\ "t" \notin DOMAIN v /\ "list" \notin DOMAIN v

getAIResponse(reply) ==
  IF "error" \in DOMAIN reply THEN [value |-> Null, caught |-> TRUE]
  ELSE LET content == reply.content
           \* response.choices[0].message?.content?.trim() || "{}"
           res == IF content = Null THEN [json |-> EmptyObject]
                  ELSE IF IsStr(content)
                  THEN (IF Trim(content.str) = <<>>
                        THEN [json |-> EmptyObject]
                        ELSE [unparseable |-> TRUE])
                  ELSE content
       IN  \* JSON.parse(res).reviews
           IF "unparseable" \in DOMAIN res
           THEN [value |-> Null, caught |-> TRUE]
           ELSE IF res.json = Null
           THEN [value |-> Null, caught |-> TRUE]
           ELSE IF IsObject(res.json)
           THEN [value |-> Get(res.json, "reviews"), caught |-> FALSE]
           ELSE [value |-> Undefined, caught |-> FALSE]

(***************************************************************************)
(* analyzeCode, lines 233-249: what the loop body does with aiResponse.    *)
(* The result tells whether a TypeError escaped (threw), the comments to   *)
(* push and the lines written to console.log.                              *)
(***************************************************************************)
IsList(v) == "list" \in DOMAIN v

\* response.lineNumber throws for a null or undefined entry.
Dereferenceable(item) == item # Null /\ item # Undefined

InvalidLineLog(file, item) ==
  [msg        |-> "Invalid line number",
   lineNumber |-> Get(item, "lineNumber"),
   file       |-> Get(file, "to"),
   comment    |-> Get(item, "reviewComment")]

\* Reconcile without the filter of line 234: every suggestion is handed to
\* createComment.
ReconcileNoFilter(file, chunk, validLineNumbers, aiResponse) ==
  IF ~Truthy(aiResponse)
  THEN [threw |-> FALSE, newComments |-> <<>>, logs |-> <<>>]
  ELSE IF ~IsList(aiResponse)
  THEN [threw |-> TRUE, newComments |-> <<>>, logs |-> <<>>]
  ELSE IF \E i \in 1..Len(aiResponse.list) : ~Dereferenceable(aiResponse.list[i])
  THEN [threw |-> TRUE, newComments |-> <<>>, logs |-> <<>>]
  ELSE LET IsValid(response) ==
             Has(validLineNumbers, Number(Get(response, "lineNumber")))
           invalid == SelectSeq(aiResponse.list, LAMBDA r : ~IsValid(r))
       IN  [threw       |-> FALSE,
            newComments |-> createComment(file, chunk, aiResponse.list),
            logs        |-> [i \in 1..Len(invalid) |->
                              InvalidLineLog(file, invalid[i])]]

\* Reconcile without the guard of line 233: a null or undefined aiResponse
\* is dereferenced.
ReconcileNoGuard(file, chunk, validLineNumbers, aiResponse) ==
  IF ~IsList(aiResponse)
  THEN [threw |-> TRUE, newComments |-> <<>>, logs |-> <<>>]
  ELSE IF \E i \in 1..Len(aiResponse.list) : ~Dereferenceable(aiResponse.list[i])
  THEN [threw |-> TRUE, newComments |-> <<>>, logs |-> <<>>]
  ELSE LET IsValid(response) ==
             Has(validLineNumbers, Number(Get(response, "lineNumber")))
           validAIResponses == SelectSeq(aiResponse.list, IsValid)
           invalid == SelectSeq(aiResponse.list, LAMBDA r : ~IsValid(r))
       IN  [threw       |-> FALSE,
            newComments |-> createComment(file, chunk, validAIResponses),
            logs        |-> [i \in 1..Len(invalid) |->
                              InvalidLineLog(file, invalid[i])]]

Reconcile(file, chunk, validLineNumbers, aiResponse) ==
  IF ~Truthy(aiResponse)
  THEN [threw |-> FALSE, newComments |-> <<>>, logs |-> <<>>]
  ELSE IF ~IsList(aiResponse)
  THEN \* aiResponse.filter is not a function
       [threw |-> TRUE, newComments |-> <<>>, logs |-> <<>>]
  ELSE IF \E i \in 1..Len(aiResponse.list) : ~Dereferenceable(aiResponse.list[i])
  THEN \* the filter pass reads response.lineNumber of a null entry
       [threw |-> TRUE, newComments |-> <<>>, logs |-> <<>>]
  ELSE LET IsValid(response) ==
             Has(validLineNumbers, Number(Get(response, "lineNumber")))
           validAIResponses == SelectSeq(aiResponse.list, IsValid)
           invalid == SelectSeq(aiResponse.list, LAMBDA r : ~IsValid(r))
       IN  [threw       |-> FALSE,
            newComments |-> createComment(file, chunk, validAIResponses),
            logs        |-> [i \in 1..Len(invalid) |->
                              InvalidLineLog(file, invalid[i])]]

(***************************************************************************)
(* createReviewComment(owner, repo, pull_number, comments): the comments   *)
(* it passes to octokit.pulls.createReview.                                *)
(***************************************************************************)
ValidComments(cs) == SelectSeq(cs, LAMBDA comment : Positive(comment.line))

(***************************************************************************)
(* The inputs of a run.                                                    *)
(***************************************************************************)
\* File paths: "a.t", "s/a.t", "d/r.m" and the deletion sentinel.
PathAT  == <<"a", ".", "t">>
PathSAT == <<"s", "/", "a", ".", "t">>
PathDRM == <<"d", "/", "r", ".", "m">>
DevNull == <<"/", "d", "e", "v", "/", "n", "u", "l", "l">>

Line(sign, text) == [sign |-> sign, text |-> text]

\* "@@ -3,1 +2,0 @@": removes old line 3.
HunkDel == [oldStart |-> 3, newStart |-> 2,
            lines |-> << Line("-", "r") >>]
\* "@@ -9,0 +10,2 @@": adds lines 10 and 11.
HunkAdd == [oldStart |-> 9, newStart |-> 10,
            lines |-> << Line("+", "p"), Line("+", "q") >>]
\* "@@ -18,1 +20,2 @@": context line (old 18, new 20), then adds line 21.
HunkCtx == [oldStart |-> 18, newStart |-> 20,
            lines |-> << Line(" ", "c"), Line("+", "p") >>]

DiffOneFile  == [files |-> << [to |-> Str(PathAT), hunks |-> <<HunkAdd>>] >>]
DiffTwoFiles == [files |-> << [to |-> Str(PathDRM), hunks |-> <<HunkDel>>],
                              [to |-> Str(PathSAT), hunks |-> <<HunkAdd>>] >>]
DiffTwoHunks == [files |-> << [to |-> Str(PathAT),
                               hunks |-> <<HunkDel, HunkAdd>>] >>]
DiffDeleted  == [files |-> << [to |-> Str(DevNull), hunks |-> <<HunkDel>>],
                              [to |-> Str(PathAT), hunks |-> <<HunkAdd>>] >>]
DiffNoPath   == [files |-> << [hunks |-> <<HunkAdd>>] >>]
DiffThree    == [files |-> << [to |-> Str(PathSAT),
                               hunks |-> <<HunkDel, HunkAdd, HunkCtx>>] >>]

\* response.data of the diff request.
DiffResponses ==
  {Null, Str(<<>>), DiffOneFile, DiffTwoFiles, DiffTwoHunks, DiffDeleted,
   DiffNoPath, DiffThree}

\* The "exclude" input: "", " , " and " **/*.m".
ExcludeInputs ==
  { <<>>,
    <<" ", ",", " ">>,
    <<" ", "*", "*", "/", "*", ".", "m">> }

\* The "include" input: "", " ," and "d/**,*.t".
IncludeInputs ==
  { <<>>,
    <<" ", ",">>,
    <<"d", "/", "*", "*", ",", "*", ".", "t">> }

\* GITHUB_EVENT_NAME and the action of the event payload.
Events ==
  { [GITHUB_EVENT_NAME |-> "pull_request", action |-> "opened"],
    [GITHUB_EVENT_NAME |-> "pull_request", action |-> "synchronize"],
    [GITHUB_EVENT_NAME |-> "pull_request", action |-> "closed"],
    [GITHUB_EVENT_NAME |-> "push"],
    [GITHUB_EVENT_NAME |-> "workflow_dispatch"] }

ThePrDetails ==
  [owner |-> "o", repo |-> "r", pull_number |-> 1,
   title |-> "T", description |-> "D"]

\* The lineNumber fields a model suggestion may carry: 10, "10", 3, 99, "x",
\* 0, -1 and 10.5.
RawLineNumbers ==
  { Int_(10), Str(<<"1", "0">>), Int_(3), Int_(99), Str(<<"x">>),
    Int_(0), Int_(0 - 1), Frac(10) }

\* The entries of a "reviews" list: suggestions, a suggestion without
\* lineNumber, and null.
ReviewEntries ==
  {[lineNumber |-> l, reviewComment |-> Str(<<"x">>)] : l \in RawLineNumbers}
  \cup {[reviewComment |-> Str(<<"y">>)], Null}

ReviewLists(n) == UNION {[1..k -> ReviewEntries] : k \in 0..n}

\* What the model client may answer when at most n more suggestions fit.
Replies(n) ==
  { [error |-> TRUE],
    [content |-> Null],
    [content |-> Str(<<" ">>)],
    [content |-> [unparseable |-> TRUE]],
    [content |-> [json |-> Null]],
    [content |-> [json |-> EmptyObject]],
    [content |-> [json |-> [reviews |-> Null]]],
    [content |-> [json |-> [reviews |-> Str(<<"x">>)]]] }
  \cup
  { [content |-> [json |-> [reviews |-> [list |-> l]]]] : l \in ReviewLists(n) }

(***************************************************************************)
(* State of one run of main().  pc is the await at which main is           *)
(* suspended ("main" before it starts, "done" after a normal return,       *)
(* "error" after main().catch has called process.exit(1)).  The debugging  *)
(* dumps of values (lines 92-94, 497-498) are not recorded.                *)
(***************************************************************************)
VARIABLES
  pc,               \* where main is suspended
  env,              \* GITHUB_EVENT_NAME and the action of the event payload
  excludeInput,     \* core.getInput("exclude")
  includeInput,     \* core.getInput("include")
  eventName,        \* main: eventName
  prDetails,        \* main: prDetails
  diff,             \* main: diff
  parsedDiff,       \* main: parsedDiff
  filteredDiff,     \* main: filteredDiff
  fileIdx,          \* analyzeCode: position of the outer loop
  chunkIdx,         \* analyzeCode: position of the inner loop
  validLineNumbers, \* analyzeCode: validLineNumbers of the current chunk
  response,         \* getAIResponse: what the model client answered
  aiResponse,       \* analyzeCode: aiResponse of the current chunk
  comments,         \* analyzeCode: comments
  consoleLog,       \* lines written with console.log
  consoleError,     \* lines written with console.error
  aiCalls,          \* prompts sent to openai.chat.completions.create
  reviewCalls,      \* comment lists sent to octokit.pulls.createReview
  received,         \* number of suggestions the model has returned so far
  exitCode          \* process exit code

vars ==
  << pc, env, excludeInput, includeInput, eventName, prDetails, diff,
     parsedDiff, filteredDiff, fileIdx, chunkIdx, validLineNumbers,
     response, aiResponse, comments, consoleLog, consoleError, aiCalls, reviewCalls,
     received, exitCode >>

Init ==
  /\ pc = "main"
  /\ env \in Events
  /\ excludeInput \in ExcludeInputs
  /\ includeInput \in IncludeInputs
  /\ eventName = "undefined"
  /\ prDetails = Undefined
  /\ diff = Undefined
  /\ parsedDiff = <<>>
  /\ filteredDiff = <<>>
  /\ fileIdx = 1
  /\ chunkIdx = 1
  /\ validLineNumbers = {}
  /\ response = Undefined
  /\ aiResponse = Undefined
  /\ comments = <<>>
  /\ consoleLog = <<>>
  /\ consoleError = <<>>
  /\ aiCalls = <<>>
  /\ reviewCalls = <<>>
  /\ received = 0
  /\ exitCode = 0

\* main().catch: console.error("Error:", error); process.exit(1).
Fail ==
  /\ pc' = "error"
  /\ consoleError' = Append(consoleError, [msg |-> "Error:"])
  /\ exitCode' = 1

\* main, line 448: the event name main and getPrDetails switch on.
ResolveEventName(e) ==
  IF e.GITHUB_EVENT_NAME = "pull_request" THEN e.action
  ELSE e.GITHUB_EVENT_NAME

\* main starts with an event getPrDetails supports: the pull request is
\* requested from the API (getPrFromEvent, getPrFromApi).
MainStart ==
  /\ pc = "main"
  /\ ResolveEventName(env) \in {"opened", "synchronize", "push"}
  /\ eventName' = ResolveEventName(env)
  /\ pc' = "getPrDetails"
  /\ UNCHANGED << env, excludeInput, includeInput, prDetails, diff,
                  parsedDiff, filteredDiff, fileIdx, chunkIdx,
                  validLineNumbers, response, aiResponse, comments, consoleLog,
                  consoleError, aiCalls, reviewCalls, received, exitCode >>

\* MainUnsupported with getPrDetails resolving: main reaches the default
\* branch of its own switch, logs "Unsupported event" and returns.
MainUnsupportedReturns ==
  /\ pc = "main"
  /\ ResolveEventName(env) \notin {"opened", "synchronize", "push"}
  /\ eventName' = ResolveEventName(env)
  /\ prDetails' = ThePrDetails
  /\ consoleLog' = Append(consoleLog, [msg |-> "Unsupported event"])
  /\ pc' = "done"
  /\ UNCHANGED << env, excludeInput, includeInput, diff,
                  parsedDiff, filteredDiff, fileIdx, chunkIdx,
                  validLineNumbers, response, aiResponse, comments,
                  consoleError, aiCalls, reviewCalls, received, exitCode >>

\* main starts with any other event: getPrDetails throws (line 106).
MainUnsupported ==
  /\ pc = "main"
  /\ ResolveEventName(env) \notin {"opened", "synchronize", "push"}
  /\ eventName' = ResolveEventName(env)
  /\ Fail
  /\ UNCHANGED << env, excludeInput, includeInput, prDetails, diff,
                  parsedDiff, filteredDiff, fileIdx, chunkIdx,
                  validLineNumbers, response, aiResponse, comments, consoleLog,
                  aiCalls, reviewCalls, received >>

\* getPrDetails resolves; main requests the diff (getDiff for opened and
\* push, compareCommits for synchronize).
PrDetailsResolved ==
  /\ pc = "getPrDetails"
  /\ prDetails' = ThePrDetails
  /\ pc' = "getDiff"
  /\ UNCHANGED << env, excludeInput, includeInput, eventName, diff,
                  parsedDiff, filteredDiff, fileIdx, chunkIdx,
                  validLineNumbers, response, aiResponse, comments, consoleLog,
                  consoleError, aiCalls, reviewCalls, received, exitCode >>

\* getPrDetails rejects: invalid payload, no pull request for the branch,
\* or a failed API request.
PrDetailsRejected ==
  /\ pc = "getPrDetails"
  /\ Fail
  /\ UNCHANGED << env, excludeInput, includeInput, eventName, prDetails, diff,
                  parsedDiff, filteredDiff, fileIdx, chunkIdx,
                  validLineNumbers, response, aiResponse, comments, consoleLog,
                  aiCalls, reviewCalls, received >>

\* String(response.data) of the synchronize branch: null becomes the text
\* "null", a text without any file.
StringOf(data) == IF data = Null THEN [files |-> <<>>] ELSE data

\* main, lines 462-482: the diff main holds after the request.
DiffOf(name, data) == IF name = "synchronize" THEN StringOf(data) ELSE data

\* NoDiffFound with a missing diff treated as a failure of the run.
NoDiffFoundFails ==
  /\ pc = "getDiff"
  /\ \E data \in DiffResponses :
        /\ ~Truthy(DiffOf(eventName, data))
        /\ diff' = DiffOf(eventName, data)
  /\ Fail
  /\ UNCHANGED << env, excludeInput, includeInput, eventName, prDetails,
                  parsedDiff, filteredDiff, fileIdx, chunkIdx,
                  validLineNumbers, response, aiResponse, comments,
                  consoleLog, aiCalls, reviewCalls, received >>

\* The diff request resolves with no diff: "No diff found", return.
NoDiffFound ==
  /\ pc = "getDiff"
  /\ \E data \in DiffResponses :
        /\ ~Truthy(DiffOf(eventName, data))
        /\ diff' = DiffOf(eventName, data)
  /\ consoleLog' = Append(consoleLog, [msg |-> "No diff found"])
  /\ pc' = "done"
  /\ UNCHANGED << env, excludeInput, includeInput, eventName, prDetails,
                  parsedDiff, filteredDiff, fileIdx, chunkIdx,
                  validLineNumbers, response, aiResponse, comments, consoleError,
                  aiCalls, reviewCalls, received, exitCode >>

\* The diff request resolves with a diff: parseDiff, filterDiffs, and
\* analyzeCode is entered (comments = [], first file, first chunk).
DiffFetched ==
  /\ pc = "getDiff"
  /\ \E data \in DiffResponses :
        /\ Truthy(DiffOf(eventName, data))
        /\ diff' = DiffOf(eventName, data)
  /\ parsedDiff' = parseDiff(diff')
  /\ filteredDiff' = filterDiffs(parsedDiff', excludeInput, includeInput)
  /\ comments' = <<>>
  /\ fileIdx' = 1
  /\ chunkIdx' = 1
  /\ pc' = "analyze"
  /\ UNCHANGED << env, excludeInput, includeInput, eventName, prDetails,
                  validLineNumbers, response, aiResponse, consoleLog, consoleError,
                  aiCalls, reviewCalls, received, exitCode >>

\* The diff request rejects.
DiffRejected ==
  /\ pc = "getDiff"
  /\ Fail
  /\ UNCHANGED << env, excludeInput, includeInput, eventName, prDetails, diff,
                  parsedDiff, filteredDiff, fileIdx, chunkIdx,
                  validLineNumbers, response, aiResponse, comments, consoleLog,
                  aiCalls, reviewCalls, received >>

(***************************************************************************)
(* analyzeCode: the two nested loops, suspended at await getAIResponse.    *)
(***************************************************************************)
NoUnit == <<0, 0>>

\* The next (file, chunk) the loops reach from position (f, c): deleted
\* files are skipped (line 216), exhausted files are left.
\* NextPos without the test of line 216: a deleted file is analysed like
\* any other file.
RECURSIVE NextPosNoSkip(_, _, _)
NextPosNoSkip(files, f, c) ==
  IF f > Len(files) THEN NoUnit
  ELSE IF c > Len(files[f].chunks) THEN NextPosNoSkip(files, f + 1, 1)
  ELSE <<f, c>>

RECURSIVE NextPos(_, _, _)
NextPos(files, f, c) ==
  IF f > Len(files) THEN NoUnit
  ELSE IF Get(files[f], "to") = Str(DevNull) THEN NextPos(files, f + 1, 1)
  ELSE IF c > Len(files[f].chunks) THEN NextPos(files, f + 1, 1)
  ELSE <<f, c>>

CurrentFile  == filteredDiff[fileIdx]
CurrentChunk == filteredDiff[fileIdx].chunks[chunkIdx]

\* The loops reach a chunk: its valid line numbers are computed, the prompt
\* is built and sent (lines 218-232).
AnalyzeChunk ==
  /\ pc = "analyze"
  /\ NextPos(filteredDiff, fileIdx, chunkIdx) # NoUnit
  /\ LET pos   == NextPos(filteredDiff, fileIdx, chunkIdx)
         file  == filteredDiff[pos[1]]
         chunk == file.chunks[pos[2]]
     IN  /\ fileIdx' = pos[1]
         /\ chunkIdx' = pos[2]
         /\ validLineNumbers' = ValidLineNumbers(chunk)
         /\ aiCalls' = Append(aiCalls, createPrompt(file, chunk, prDetails))
  /\ response' = Undefined
  /\ aiResponse' = Undefined
  /\ pc' = "awaitAI"
  /\ UNCHANGED << env, excludeInput, includeInput, eventName, prDetails, diff,
                  parsedDiff, filteredDiff, comments, consoleLog,
                  consoleError, reviewCalls, received, exitCode >>

\* Number of suggestions a value returned by getAIResponse carries.
Size(value) == IF IsList(value) THEN Len(value.list) ELSE 0

\* console.error of getAIResponse's catch block.
FetchErrors(r) ==
  IF r.caught THEN << [msg |-> "Could not fetch AI response:"] >> ELSE <<>>

\* ModelAnswered with the comments of the chunk put in front of the comments
\* collected so far.
ModelAnsweredPrepends ==
  /\ pc = "awaitAI"
  /\ \E reply \in Replies(MaxReviews - received) :
        LET r   == getAIResponse(reply)
            rec == Reconcile(CurrentFile, CurrentChunk, validLineNumbers,
                             r.value)
        IN  /\ ~rec.threw
            /\ response' = reply
            /\ aiResponse' = r.value
            /\ received' = received + Size(r.value)
            /\ consoleError' = consoleError \o FetchErrors(r)
            /\ consoleLog' = consoleLog \o rec.logs
            /\ comments' = rec.newComments \o comments
  /\ chunkIdx' = chunkIdx + 1
  /\ pc' = "analyze"
  /\ UNCHANGED << env, excludeInput, includeInput, eventName, prDetails, diff,
                  parsedDiff, filteredDiff, fileIdx, validLineNumbers,
                  aiCalls, reviewCalls, exitCode >>

\* The model call returns and the loop body completes (lines 233-249): the
\* invalid suggestions are logged, the comments of the valid ones pushed.
ModelAnswered ==
  /\ pc = "awaitAI"
  /\ \E reply \in Replies(MaxReviews - received) :
        LET r   == getAIResponse(reply)
            rec == Reconcile(CurrentFile, CurrentChunk, validLineNumbers,
                             r.value)
        IN  /\ ~rec.threw
            /\ response' = reply
            /\ aiResponse' = r.value
            /\ received' = received + Size(r.value)
            /\ consoleError' = consoleError \o FetchErrors(r)
            /\ consoleLog' = consoleLog \o rec.logs
            /\ comments' = comments \o rec.newComments
  /\ chunkIdx' = chunkIdx + 1
  /\ pc' = "analyze"
  /\ UNCHANGED << env, excludeInput, includeInput, eventName, prDetails, diff,
                  parsedDiff, filteredDiff, fileIdx, validLineNumbers,
                  aiCalls, reviewCalls, exitCode >>

\* The model call returns and the loop body throws a TypeError, which
\* leaves analyzeCode and main and reaches main().catch.
ModelAnswerThrows ==
  /\ pc = "awaitAI"
  /\ \E reply \in Replies(MaxReviews - received) :
        LET r   == getAIResponse(reply)
            rec == Reconcile(CurrentFile, CurrentChunk, validLineNumbers,
                             r.value)
        IN  /\ rec.threw
            /\ response' = reply
            /\ aiResponse' = r.value
            /\ received' = received + Size(r.value)
            /\ consoleError' =
                 (consoleError \o FetchErrors(r)) \o << [msg |-> "Error:"] >>
  /\ pc' = "error"
  /\ exitCode' = 1
  /\ UNCHANGED << env, excludeInput, includeInput, eventName, prDetails, diff,
                  parsedDiff, filteredDiff, fileIdx, chunkIdx,
                  validLineNumbers, comments, consoleLog, aiCalls,
                  reviewCalls >>

(***************************************************************************)
(* main, lines 500-521, and createReviewComment.                           *)
(***************************************************************************)
\* NoComments without the test of line 501: the empty batch is sent to
\* octokit.pulls.createReview.
NoCommentsPosts ==
  /\ pc = "analyze"
  /\ NextPos(filteredDiff, fileIdx, chunkIdx) = NoUnit
  /\ Len(comments) = 0
  /\ reviewCalls' = Append(reviewCalls, comments)
  /\ pc' = "createReview"
  /\ UNCHANGED << env, excludeInput, includeInput, eventName, prDetails, diff,
                  parsedDiff, filteredDiff, fileIdx, chunkIdx,
                  validLineNumbers, response, aiResponse, comments,
                  consoleLog, consoleError, aiCalls, received, exitCode >>

\* analyzeCode returns no comment: "No comments".
NoComments ==
  /\ pc = "analyze"
  /\ NextPos(filteredDiff, fileIdx, chunkIdx) = NoUnit
  /\ Len(comments) = 0
  /\ consoleLog' = Append(consoleLog, [msg |-> "No comments"])
  /\ pc' = "done"
  /\ UNCHANGED << env, excludeInput, includeInput, eventName, prDetails, diff,
                  parsedDiff, filteredDiff, fileIdx, chunkIdx,
                  validLineNumbers, response, aiResponse, comments, consoleError,
                  aiCalls, reviewCalls, received, exitCode >>

ToBePosted(comment) ==
  [msg |-> "Comment to be posted", body |-> comment.body,
   path |-> comment.path, line |-> comment.line]

ToBePostedAll(cs) == [i \in 1..Len(cs) |-> ToBePosted(cs[i])]

\* analyzeCode returns comments: each is logged and createReviewComment
\* sends those with line > 0, if any, to octokit.pulls.createReview.
CommentsReturned ==
  /\ pc = "analyze"
  /\ NextPos(filteredDiff, fileIdx, chunkIdx) = NoUnit
  /\ Len(comments) > 0
  /\ IF Len(ValidComments(comments)) = 0
     THEN /\ consoleLog' =
               Append(consoleLog \o ToBePostedAll(comments),
                      [msg |-> "No valid comments to post."])
          /\ reviewCalls' = reviewCalls
          /\ pc' = "done"
     ELSE /\ consoleLog' = consoleLog \o ToBePostedAll(comments)
          /\ reviewCalls' = Append(reviewCalls, ValidComments(comments))
          /\ pc' = "createReview"
  /\ UNCHANGED << env, excludeInput, includeInput, eventName, prDetails, diff,
                  parsedDiff, filteredDiff, fileIdx, chunkIdx,
                  validLineNumbers, response, aiResponse, comments, consoleError,
                  aiCalls, received, exitCode >>

\* octokit.pulls.createReview resolves: main returns.
ReviewCreated ==
  /\ pc = "createReview"
  /\ pc' = "done"
  /\ UNCHANGED << env, excludeInput, includeInput, eventName, prDetails, diff,
                  parsedDiff, filteredDiff, fileIdx, chunkIdx,
                  validLineNumbers, response, aiResponse, comments, consoleLog,
                  consoleError, aiCalls, reviewCalls, received, exitCode >>

\* octokit.pulls.createReview rejects.
ReviewRejected ==
  /\ pc = "createReview"
  /\ Fail
  /\ UNCHANGED << env, excludeInput, includeInput, eventName, prDetails, diff,
                  parsedDiff, filteredDiff, fileIdx, chunkIdx,
                  validLineNumbers, response, aiResponse, comments, consoleLog,
                  aiCalls, reviewCalls, received >>

Next ==
  \/ MainStart
  \/ MainUnsupported
  \/ PrDetailsResolved
  \/ PrDetailsRejected
  \/ NoDiffFound
  \/ DiffFetched
  \/ DiffRejected
  \/ AnalyzeChunk
  \/ ModelAnswered
  \/ ModelAnswerThrows
  \/ NoComments
  \/ CommentsReturned
  \/ ReviewCreated
  \/ ReviewRejected

Spec == Init /\ [][Next]_vars

(***************************************************************************)
(* Properties.                                                             *)
(***************************************************************************)
\* The non-blank entries of a comma-separated input.
NonBlank(input) ==
  {Trim(e) : e \in {Split(input, ",")[i] : i \in 1..Len(Split(input, ","))}}
  \ { <<>> }

PathOf(file) == IF "to" \in DOMAIN file THEN file.to.str ELSE <<>>

MatchedBy(file, input) == \E p \in NonBlank(input) : minimatch(PathOf(file), p)

Kept(file) == \E j \in 1..Len(filteredDiff) : filteredDiff[j] = file

\* C1 (exclude dominance): a file of the parsed diff whose path is matched
\* by at least one non-blank exclude pattern is absent from the filtered
\* diff, whether or not an include pattern matches it.
C1_ExcludeDominance ==
  \A i \in 1..Len(parsedDiff) :
    MatchedBy(parsedDiff[i], excludeInput) => ~Kept(parsedDiff[i])

\* C1 witness: filterDiffs has run on a diff with a file that both an
\* exclude and an include pattern match, and the file is not kept.
C1_Witness ==
  /\ pc = "analyze"
  /\ \E i \in 1..Len(parsedDiff) :
        /\ MatchedBy(parsedDiff[i], excludeInput)
        /\ MatchedBy(parsedDiff[i], includeInput)
        /\ ~Kept(parsedDiff[i])

\* C2: a file that no exclude pattern matches is kept if and only if the
\* include list has no non-blank entry or one of its patterns matches.
C2_IncludeRule ==
  \A i \in 1..Len(parsedDiff) :
    ~MatchedBy(parsedDiff[i], excludeInput) =>
      (Kept(parsedDiff[i]) <=>
         (NonBlank(includeInput) = {} \/ MatchedBy(parsedDiff[i], includeInput)))

\* C2 witness: with a non-empty include list, one file that is not excluded
\* is kept and another file that is not excluded is dropped.
C2_Witness ==
  /\ pc = "analyze"
  /\ NonBlank(includeInput) # {}
  /\ \E i, j \in 1..Len(parsedDiff) :
        /\ ~MatchedBy(parsedDiff[i], excludeInput)
        /\ ~MatchedBy(parsedDiff[j], excludeInput)
        /\ Kept(parsedDiff[i])
        /\ ~Kept(parsedDiff[j])

\* The lines console.log has written between two states.
NewLogs == SubSeq(consoleLog', Len(consoleLog) + 1, Len(consoleLog'))

\* The comments pushed between two states.
NewComments == SubSeq(comments', Len(comments) + 1, Len(comments'))

IsIntegerIn(n, set) == n # NaN /\ n.t = "int" /\ n.v \in set

\* C3 (line-number soundness): every comment analyzeCode pushes for a chunk
\* has a line number that belongs to the valid line numbers of that chunk,
\* and the comments pushed before are left as they are.
C3_LineNumberSoundness ==
  [][pc = "awaitAI" =>
       /\ Len(comments') >= Len(comments)
       /\ SubSeq(comments', 1, Len(comments)) = comments
       /\ \A k \in 1..Len(NewComments) :
            IsIntegerIn(NewComments[k].line, validLineNumbers)]_vars

\* C3 witness: for the chunk that adds lines 10 and 11 the model returned two
\* suggestions; the one for line 10 became a comment, the one for line 99
\* was dropped and logged.
C3_Witness ==
  /\ pc = "analyze"
  /\ validLineNumbers = {10, 11}
  /\ IsList(aiResponse)
  /\ Len(aiResponse.list) = 2
  /\ Len(comments) = 1
  /\ comments[1].line = Int_(10)
  /\ Len(consoleLog) = 1
  /\ consoleLog[1].lineNumber = Int_(99)

\* C4: the valid line numbers of a chunk are line numbers of its added and
\* context lines only; no number is in the set because of a removed line or
\* without being the number of an added or a context line.
C4_OnlyAddedAndContextLines ==
  pc = "awaitAI" =>
    \A n \in validLineNumbers :
      \E i \in 1..Len(CurrentChunk.changes) :
        LET c == CurrentChunk.changes[i] IN
        \/ c.type = "add" /\ c.ln = n
        \/ c.type = "normal" /\ (c.ln1 = n \/ c.ln2 = n)

\* C5: whatever the model returns for a chunk, analyzeCode raises no
\* exception and goes on with the remaining chunks.
C5_NoPayloadAborts ==
  [][pc = "awaitAI" => (pc' = "analyze" /\ exitCode' = 0)]_vars

\* Number of chunks analyzeCode has to submit for a list of files.
RECURSIVE NumUnits(_)
NumUnits(files) ==
  IF files = <<>> THEN 0
  ELSE (IF Get(Head(files), "to") = Str(DevNull) THEN 0
        ELSE Len(Head(files).chunks))
       + NumUnits(Tail(files))

FetchFailed ==
  \E k \in 1..Len(consoleError) :
    consoleError[k].msg = "Could not fetch AI response:"

\* C6: when getAIResponse returns null for a chunk, the chunk adds no
\* comment; and a run in which a model call failed still submits every
\* chunk and hands the comments of the other chunks to the posting step.
C6_FailedCallDoesNotStopRun ==
  /\ [][(pc = "awaitAI" /\ aiResponse' = Null) =>
          (comments' = comments /\ pc' = "analyze")]_vars
  /\ []((pc \in {"done", "error"} /\ FetchFailed) =>
          /\ Len(aiCalls) = NumUnits(filteredDiff)
          /\ comments # <<>> => reviewCalls = << comments >>)

\* The payloads null (no content, or the JSON text null), {} and
\* {"reviews": []}.
EmptyPayloads ==
  { [content |-> Null],
    [content |-> [json |-> Null]],
    [content |-> [json |-> EmptyObject]],
    [content |-> [json |-> [reviews |-> [list |-> <<>>]]]] }

PositiveComments(cs) ==
  SelectSeq(cs, LAMBDA c :
    /\ c.line # NaN
    /\ \/ c.line.t = "int" /\ c.line.v > 0
       \/ c.line.t = "frac" /\ c.line.v >= 0)

\* C8: octokit.pulls.createReview is invoked at most once; it is invoked
\* with exactly the comments whose line is > 0, and only when there is one;
\* a run that returns normally has invoked it if and only if analyzeCode
\* returned a comment with line > 0.
C8_PostingOnce ==
  /\ Len(reviewCalls) <= 1
  /\ reviewCalls # <<>> =>
       /\ PositiveComments(comments) # <<>>
       /\ reviewCalls[1] = PositiveComments(comments)
  /\ pc = "createReview" => Len(reviewCalls) = 1
  /\ pc = "done" =>
       (reviewCalls = <<>> <=> PositiveComments(comments) = <<>>)

\* C8 witness: a run has returned after posting its two comments in one
\* review.
C8_Witness ==
  /\ pc = "done"
  /\ Len(comments) = 2
  /\ reviewCalls = << comments >>

\* C9: every suggestion of a chunk whose reconciliation completes is either
\* turned into a comment or logged as invalid, never neither and never
\* both: comments and log lines together grow by the number of suggestions.
C9_PromotedOrLogged ==
  [][(pc = "awaitAI" /\ pc' = "analyze") =>
       Len(NewComments) + Len(NewLogs) = Size(aiResponse')]_vars

\* The suggestions of a payload whose coerced line number is not a valid
\* line number of the current chunk.
InvalidSuggestions(list) ==
  SelectSeq(list, LAMBDA e :
    /\ e # Null
    /\ ~IsIntegerIn(Number(Get(e, "lineNumber")), validLineNumbers))

\* C10: for the suggestions of a chunk, console.log gets exactly one line
\* per suggestion whose coerced line number is not valid, carrying the line
\* number, the file path and the comment text, and no line for the others.
C10_OneDiagnosticPerInvalid ==
  [][(pc = "awaitAI" /\ IsList(aiResponse')) =>
       LET invalid == InvalidSuggestions(aiResponse'.list) IN
       /\ Len(consoleLog') >= Len(consoleLog)
       /\ NewLogs =
            [i \in 1..Len(invalid) |->
               [msg        |-> "Invalid line number",
                lineNumber |-> Get(invalid[i], "lineNumber"),
                file       |-> Get(CurrentFile, "to"),
                comment    |-> Get(invalid[i], "reviewComment")]]]_vars

\* What console.log lines say about a file: the file of an "Invalid line
\* number" line, the path of a "Comment to be posted" line.
LogPaths(line) == {Get(line, "file"), Get(line, "path")}

IsDeleted(file) == "to" \in DOMAIN file /\ file.to = Str(DevNull)

\* C11: a file whose target path is "/dev/null" gives rise to nothing: the
\* loops never stop at one of its chunks, no prompt is sent for it, and no
\* comment and no console.log line names it.
C11_DeletedFileSkipped ==
  /\ pc = "awaitAI" => ~IsDeleted(CurrentFile)
  /\ \A k \in 1..Len(aiCalls) : aiCalls[k].file # Str(DevNull)
  /\ \A k \in 1..Len(comments) : comments[k].path # Str(DevNull)
  /\ \A k \in 1..Len(consoleLog) : Str(DevNull) \notin LogPaths(consoleLog[k])
  /\ \A k \in 1..Len(reviewCalls) :
       \A j \in 1..Len(reviewCalls[k]) :
         reviewCalls[k][j].path # Str(DevNull)

\* C11 witness: the filtered diff holds a deleted file with a chunk and a
\* second file; the run has ended after one model call, a comment for the
\* second file and a logged invalid suggestion.
C11_Witness ==
  /\ pc = "done"
  /\ Len(filteredDiff) = 2
  /\ IsDeleted(filteredDiff[1])
  /\ Len(filteredDiff[1].chunks) = 1
  /\ Len(aiCalls) = 1
  /\ Len(comments) = 1
  /\ Len(consoleLog) = 2

\* The suggestions of a payload whose coerced line number is a valid line
\* number of the current chunk, in the order of the payload.
ValidSuggestions(list) ==
  SelectSeq(list, LAMBDA e :
    /\ e # Null
    /\ IsIntegerIn(Number(Get(e, "lineNumber")), validLineNumbers))

UnitsOf(comment) ==
  UNION { { <<f, c>> :
              c \in { k \in 1..Len(filteredDiff[f].chunks) :
                        IsIntegerIn(comment.line,
                          ValidLineNumbers(filteredDiff[f].chunks[k])) } } :
          f \in { k \in 1..Len(filteredDiff) :
                    Get(filteredDiff[k], "to") = comment.path } }

\* File-then-chunk order.
NotAfter(u, v) == u[1] < v[1] \/ (u[1] = v[1] /\ u[2] <= v[2])

\* C13: the comments analyzeCode collects are in file-then-chunk order of
\* the filtered diff: of two comments, the one of the earlier file, or of
\* the earlier chunk of the same file, comes first; and each chunk's
\* comments are appended behind those collected before, whatever the model
\* returned for the other chunks.
C13_BatchInDiffOrder ==
  /\ [](\A i, j \in 1..Len(comments) :
          i < j =>
            /\ UnitsOf(comments[i]) # {}
            /\ \A u \in UnitsOf(comments[i]) :
                 \A v \in UnitsOf(comments[j]) : NotAfter(u, v))
  /\ [][pc = "awaitAI" =>
          /\ Len(comments') >= Len(comments)
          /\ comments' = comments \o NewComments
          /\ \A k \in 1..Len(NewComments) :
               <<fileIdx, chunkIdx>> \in UnitsOf(NewComments[k])]_vars

\* C13 witness: a run over two files has ended with one comment for each,
\* the comment of the first file first.
C13_Witness ==
  /\ pc = "done"
  /\ Len(filteredDiff) = 2
  /\ Len(comments) = 2
  /\ comments[1].path = filteredDiff[1].to
  /\ comments[2].path = filteredDiff[2].to
  /\ comments[1].path # comments[2].path

\* The prompts of the chunks of a list of files, deleted files left out, in
\* file-then-chunk order.
RECURSIVE UnitPrompts(_)
UnitPrompts(files) ==
  IF files = <<>> THEN <<>>
  ELSE (IF Get(Head(files), "to") = Str(DevNull) THEN <<>>
        ELSE [c \in 1..Len(Head(files).chunks) |->
                createPrompt(Head(files), Head(files).chunks[c],
                             ThePrDetails)])
       \o UnitPrompts(Tail(files))

IsPrefix(s, t) == Len(s) <= Len(t) /\ s = SubSeq(t, 1, Len(s))

\* C14: the model is called for the chunks one after the other: the calls
\* made so far are the first chunks of the filtered diff in file-then-chunk
\* order, a run that has ended has called the model exactly once for every
\* chunk of every file that is not deleted, and a call is made only when no
\* call is outstanding.
C14_OneCallPerUnitInOrder ==
  /\ [](IsPrefix(aiCalls, UnitPrompts(filteredDiff)))
  /\ [](pc \in {"createReview", "done", "error"} =>
          aiCalls = UnitPrompts(filteredDiff))
  /\ [][aiCalls' # aiCalls =>
          /\ pc = "analyze"
          /\ pc' = "awaitAI"
          /\ Len(aiCalls') = Len(aiCalls) + 1]_vars

\* C15: when the diff main holds after the request is null or the empty
\* text, main has returned: nothing was parsed or filtered, the model was
\* not called, nothing was posted and the exit code is not 1.  The same
\* holds of the text "null" that a synchronize event makes of a null
\* response, except that this text is parsed (to no file at all).
C15_NoDiffCleanExit ==
  /\ diff \in {Null, Str(<<>>)} =>
       /\ pc = "done"
       /\ parsedDiff = <<>>
       /\ filteredDiff = <<>>
       /\ consoleLog = << [msg |-> "No diff found"] >>
       /\ consoleError = <<>>
  /\ diff \in {Null, Str(<<>>), [files |-> <<>>]} =>
       /\ pc \in {"analyze", "done"}
       /\ filteredDiff = <<>>
       /\ aiCalls = <<>>
       /\ reviewCalls = <<>>
       /\ exitCode = 0

\* C15 witness: a push run whose diff request returned null has ended.
C15_Witness ==
  /\ pc = "done"
  /\ eventName = "push"
  /\ diff = Null
  /\ exitCode = 0

\* An input made of blanks and commas only (the empty input included).
BlankOnly(input) == \A i \in 1..Len(input) : input[i] \in {" ", ","}

\* C16: the blank entries of the exclude and the include input do not
\* count.  When the exclude input has only blank entries, no file is
\* excluded: a file is kept if and only if the include rule admits it.
\* When the include input has only blank entries, every file is admitted: a
\* file is kept if and only if no exclude pattern matches it.  When both
\* have only blank entries, every file is kept.
C16_BlankEntriesIgnored ==
  /\ BlankOnly(excludeInput) =>
       \A i \in 1..Len(parsedDiff) :
         Kept(parsedDiff[i]) <=>
           (BlankOnly(includeInput) \/ MatchedBy(parsedDiff[i], includeInput))
  /\ BlankOnly(includeInput) =>
       \A i \in 1..Len(parsedDiff) :
         Kept(parsedDiff[i]) <=>
           (BlankOnly(excludeInput) \/ ~MatchedBy(parsedDiff[i], excludeInput))
  /\ (BlankOnly(excludeInput) /\ BlankOnly(includeInput)) =>
       filteredDiff = parsedDiff

\* C16 witness: with the exclude input " , " and the include input " ,",
\* both files of a two-file diff are kept.
C16_Witness ==
  /\ pc = "analyze"
  /\ excludeInput = <<" ", ",", " ">>
  /\ includeInput = <<" ", ",">>
  /\ Len(parsedDiff) = 2
  /\ filteredDiff = parsedDiff

\* n is a line number that the change contributes: its ln, its ln2, or a
\* number from ln1 to ln2.
Contributes(c, n) ==
  \/ "ln" \in DOMAIN c /\ c.ln = n
  \/ "ln2" \in DOMAIN c /\ c.ln2 = n
  \/ "ln1" \in DOMAIN c /\ "ln2" \in DOMAIN c /\ c.ln1 <= n /\ n <= c.ln2

\* C18: the valid line numbers of the chunk being analysed are exactly the
\* numbers its own changes contribute (ln, ln2, and every number from ln1
\* to ln2), whatever the other chunks of the file contain; a suggestion
\* whose line number is not among them gives no comment, even when another
\* chunk of the same file contributes that number.
C18_ValidSetOfOwnChunk ==
  /\ [](pc = "awaitAI" =>
          LET changes == CurrentChunk.changes IN
          /\ \A n \in validLineNumbers :
               \E i \in 1..Len(changes) : Contributes(changes[i], n)
          /\ \A i \in 1..Len(changes) :
               /\ "ln" \in DOMAIN changes[i] =>
                    changes[i].ln \in validLineNumbers
               /\ "ln2" \in DOMAIN changes[i] =>
                    changes[i].ln2 \in validLineNumbers
               /\ ("ln1" \in DOMAIN changes[i] /\ "ln2" \in DOMAIN changes[i]) =>
                    (changes[i].ln1 .. changes[i].ln2)
                      \subseteq validLineNumbers)
  /\ [][pc = "awaitAI" =>
          /\ validLineNumbers' = validLineNumbers
          /\ \A k \in 1..Len(NewComments) :
               \E i \in 1..Len(CurrentChunk.changes) :
                 /\ NewComments[k].line # NaN
                 /\ NewComments[k].line.t = "int"
                 /\ Contributes(CurrentChunk.changes[i],
                                NewComments[k].line.v)]_vars

\* C18 witness: in a file whose first chunk removes line 3, the second
\* chunk, with the valid line numbers 10 and 11, was answered with one
\* suggestion for line 3, and no comment came of it.
C18_Witness ==
  /\ pc = "analyze"
  /\ fileIdx = 1
  /\ chunkIdx = 3
  /\ filteredDiff[1].chunks[1].changes[1].ln = 3
  /\ validLineNumbers = {10, 11}
  /\ IsList(aiResponse)
  /\ Len(aiResponse.list) = 1
  /\ Get(aiResponse.list[1], "lineNumber") = Int_(3)
  /\ comments = <<>>

\* C19: every comment analyzeCode collects has an integer line > 0,
\* whatever line numbers the model returned, so createReviewComment drops
\* none: a review is created with exactly the comments analyzeCode
\* returned, and "No valid comments to post." is never logged.
C19_NoCommentDropped ==
  /\ \A k \in 1..Len(comments) :
       /\ comments[k].line # NaN
       /\ comments[k].line.t = "int"
       /\ comments[k].line.v > 0
  /\ \A k \in 1..Len(reviewCalls) : reviewCalls[k] = comments
  /\ \A k \in 1..Len(consoleLog) :
       consoleLog[k].msg # "No valid comments to post."
  /\ (pc \in {"createReview", "done"} /\ comments # <<>>) =>
       reviewCalls = << comments >>

\* C19 witness: the model returned a suggestion for line 0 and one for line
\* 10; the review was created with the single comment analyzeCode returned.
C19_Witness ==
  /\ pc = "createReview"
  /\ IsList(aiResponse)
  /\ Len(aiResponse.list) = 2
  /\ Get(aiResponse.list[1], "lineNumber") = Int_(0)
  /\ Get(aiResponse.list[2], "lineNumber") = Int_(10)
  /\ Len(comments) = 1
  /\ reviewCalls = << comments >>

\* The event resolves to opened, synchronize or push: a pull_request event
\* with one of the first two as its action, or a push event.
Supported(e) ==
  \/ /\ e.GITHUB_EVENT_NAME = "pull_request"
     /\ e.action \in {"opened", "synchronize"}
  \/ e.GITHUB_EVENT_NAME = "push"

\* C20: for an event that does not resolve to opened, synchronize or push,
\* the first step of main ends the run in the error state with exit code 1:
\* no pull request details, no diff request, no model call and no review
\* call; main never logs "Unsupported event" and never returns normally.
C20_UnsupportedEventFails ==
  /\ [](~Supported(env) =>
          /\ pc \in {"main", "error"}
          /\ pc = "error" => exitCode = 1
          /\ prDetails = Undefined
          /\ diff = Undefined
          /\ parsedDiff = <<>>
          /\ aiCalls = <<>>
          /\ reviewCalls = <<>>
          /\ consoleLog = <<>>)
  /\ [][(pc = "main" /\ ~Supported(env)) =>
          (pc' = "error" /\ exitCode' = 1)]_vars

\* C20 witness: a pull_request event with the action closed has ended in
\* the error state.
C20_Witness ==
  /\ env = [GITHUB_EVENT_NAME |-> "pull_request", action |-> "closed"]
  /\ pc = "error"
  /\ exitCode = 1
  /\ consoleError = << [msg |-> "Error:"] >>

====
